---- MODULE Spec2Model ----
(***************************************************************************)
(* Model of the Wordle solver in main.cpp: the hint engine (Hint::match,   *)
(* Hint::fromGuess), filterTargets, getNextGuess and the solveWord loop.   *)
(*                                                                         *)
(* A letter 'a'..'z' is a number 1..26, the character '.' that fromGuess   *)
(* uses to cross letters off is the number 0, a word_t is a sequence of    *)
(* wordLen letters, a hint pattern is a sequence of wordLen of the strings *)
(* "g", "y", ".", and a Hint object is a record [guess, hint].             *)
(***************************************************************************)
EXTENDS Integers, Sequences, FiniteSets, TLC

\* Words have 5 letters.
wordLen == 5

\* Number of guesses allowed
maxGuesses == 6

\* Number of guesses allowed in hard mode
maxGuessesHard == 99

\* The model's alphabet is the first NumLetters letters.
NumLetters == 2

Letters == 1..NumLetters

Pos == 1..wordLen

\* The character '.', which is no letter of a valid word.
Dot == 0

\* Every valid word over the model's alphabet.
AllWords == [Pos -> Letters]

HintChars == {"g", "y", "."}

\* word_t nonWord_ = { '.', '.', '.', '.', '.' }
nonWord == [p \in Pos |-> Dot]

\* Hint(guessIn, hintIn)
MkHint(guessIn, hintIn) == [guess |-> guessIn, hint |-> hintIn]

----------------------------------------------------------------------------
(* Hint::fromGuess *)

\* The first loop of fromGuess: st = [guess, target, hint] are the local
\* copies, p the position the zip has reached.
RECURSIVE FromGuessGreen(_, _)
FromGuessGreen(st, p) ==
    IF p > wordLen THEN st
    ELSE IF st.guess[p] = st.target[p]
         THEN FromGuessGreen([guess  |-> [st.guess EXCEPT ![p] = Dot],
                              target |-> [st.target EXCEPT ![p] = Dot],
                              hint   |-> [st.hint EXCEPT ![p] = "g"]], p + 1)
         ELSE FromGuessGreen(st, p + 1)

\* The inner loop of the second pass: the first position q..wordLen of the
\* target copy that holds ch, or 0 when there is none.
RECURSIVE FindInTarget(_, _, _)
FindInTarget(target, ch, q) ==
    IF q > wordLen THEN 0
    ELSE IF ch = target[q] THEN q
    ELSE FindInTarget(target, ch, q + 1)

\* FromGuessYellow without crossing the letter off the target copy.
RECURSIVE FromGuessYellow_KeepTarget(_, _)
FromGuessYellow_KeepTarget(st, p) ==
    IF p > wordLen THEN st
    ELSE IF st.guess[p] # Dot /\ FindInTarget(st.target, st.guess[p], 1) # 0
         THEN FromGuessYellow_KeepTarget(
                  [st EXCEPT !.guess[p] = Dot, !.hint[p] = "y"], p + 1)
         ELSE FromGuessYellow_KeepTarget(st, p + 1)

\* The second loop of fromGuess.
RECURSIVE FromGuessYellow(_, _)
FromGuessYellow(st, p) ==
    IF p > wordLen THEN st
    ELSE IF st.guess[p] # Dot
         THEN LET q == FindInTarget(st.target, st.guess[p], 1)
              IN  IF q # 0
                  THEN FromGuessYellow([guess  |-> [st.guess EXCEPT ![p] = Dot],
                                        target |-> [st.target EXCEPT ![q] = Dot],
                                        hint   |-> [st.hint EXCEPT ![p] = "y"]], p + 1)
                  ELSE FromGuessYellow(st, p + 1)
         ELSE FromGuessYellow(st, p + 1)

\* Hint::fromGuess(wTargetIn, wGuessIn)
fromGuess(wTargetIn, wGuessIn) ==
    LET st0 == [guess |-> wGuessIn, target |-> wTargetIn,
                hint |-> [p \in Pos |-> "."]]
        st1 == FromGuessGreen(st0, 1)
        st2 == FromGuessYellow(st1, 1)
    IN  MkHint(wGuessIn, st2.hint)

----------------------------------------------------------------------------
(* Hint::match *)

\* The state of match between its passes: ok is FALSE once a pass has
\* returned false, matched is the array of the same name.
MatchState(okIn, matchedIn) == [ok |-> okIn, matched |-> matchedIn]

\* The green loop of match.
RECURSIVE MatchGreen(_, _, _, _)
MatchGreen(h, word, matched, p) ==
    IF p > wordLen THEN MatchState(TRUE, matched)
    ELSE IF h.hint[p] = "g"
         THEN IF word[p] = h.guess[p]
              THEN MatchGreen(h, word, [matched EXCEPT ![p] = TRUE], p + 1)
              ELSE MatchState(FALSE, matched)
         ELSE MatchGreen(h, word, matched, p + 1)

\* The inner loop of the yellow pass: the first position q..wordLen of word
\* that holds chYellow, is no yellow chYellow of the guess and is not matched
\* yet, or 0 when there is none.
RECURSIVE FindYellow(_, _, _, _, _)
FindYellow(h, word, matched, chYellow, q) ==
    IF q > wordLen THEN 0
    ELSE IF /\ word[q] = chYellow
            /\ ~(h.hint[q] = "y" /\ chYellow = h.guess[q])
            /\ ~matched[q]
         THEN q
         ELSE FindYellow(h, word, matched, chYellow, q + 1)

\* The yellow loop of match.
RECURSIVE MatchYellow(_, _, _, _)
MatchYellow(h, word, matched, p) ==
    IF p > wordLen THEN MatchState(TRUE, matched)
    ELSE IF h.hint[p] = "y"
         THEN LET q == FindYellow(h, word, matched, h.guess[p], 1)
              IN  IF q = 0 THEN MatchState(FALSE, matched)
                  ELSE MatchYellow(h, word, [matched EXCEPT ![q] = TRUE], p + 1)
         ELSE MatchYellow(h, word, matched, p + 1)

\* MatchGrey without the matched array: a grey letter anywhere in word fails.
MatchGrey_IgnoreMatched(h, word, matched) ==
    \A p \in Pos :
        h.hint[p] = "." => ~(\E q \in Pos : word[q] = h.guess[p])

\* The grey loop of match: TRUE unless word holds a grey letter of the guess
\* at a position that is not matched.
MatchGrey(h, word, matched) ==
    \A p \in Pos :
        h.hint[p] = "." =>
            ~(\E q \in Pos : word[q] = h.guess[p] /\ ~matched[q])

\* Hint::match(word) of the Hint h
match(h, word) ==
    LET m1 == MatchGreen(h, word, [p \in Pos |-> FALSE], 1)
    IN  IF ~m1.ok THEN FALSE
        ELSE LET m2 == MatchYellow(h, word, m1.matched, 1)
             IN  IF ~m2.ok THEN FALSE
                 ELSE MatchGrey(h, word, m2.matched)

----------------------------------------------------------------------------
(* filterTargets *)

\* filterTargets with any_of in place of all_of.
filterTargets_AnyOf(hints, targetsIn) ==
    SelectSeq(targetsIn,
              LAMBDA word : \E k \in 1..Len(hints) : match(hints[k], word))

\* filterTargets(hints, targetsIn): hints is a sequence of Hint objects.
filterTargets(hints, targetsIn) ==
    SelectSeq(targetsIn,
              LAMBDA word : \A k \in 1..Len(hints) : match(hints[k], word))

\* filterTargets(hint, targetsIn), the overload for a single hint
filterTargets1(hint, targetsIn) == filterTargets(<<hint>>, targetsIn)

----------------------------------------------------------------------------
(* getNextGuess *)

\* std::ranges::count_if(targets, hint.match) over targets[k..]
RECURSIVE CountIf(_, _, _)
CountIf(hint, targets, k) ==
    IF k > Len(targets) THEN 0
    ELSE (IF match(hint, targets[k]) THEN 1 ELSE 0) + CountIf(hint, targets, k + 1)

\* The inner transform and its std::accumulate from 0, over targets[k..]:
\* the score of one guess word.
RECURSIVE SumScores(_, _, _)
SumScores(guess, targets, k) ==
    IF k > Len(targets) THEN 0
    ELSE CountIf(fromGuess(targets[k], guess), targets, 1)
             + SumScores(guess, targets, k + 1)

Score(guess, targets) == SumScores(guess, targets, 1)

\* std::numeric_limits<score_t>::max(). It is 2^64 - 1 in the program; the
\* model uses the largest integer TLC represents, which is likewise above every
\* score (a score is at most Len(targets)^2).
scoreMax == 2147483647

\* guessScore_t(word, score)
GuessScore(wordIn, scoreIn) == [word |-> wordIn, score |-> scoreIn]

\* MinScore with <= in place of <: of equal scores the last one wins.
MinScore_LastWins(min, next) == IF next.score <= min.score THEN next ELSE min

\* The lambda of the outer std::accumulate.
MinScore(min, next) == IF next.score < min.score THEN next ELSE min

\* The outer std::accumulate over guessWords[k..], min being the accumulator.
RECURSIVE AccumulateBest(_, _, _, _)
AccumulateBest(targets, guessWords, k, min) ==
    IF k > Len(guessWords) THEN min
    ELSE AccumulateBest(targets, guessWords, k + 1,
             MinScore(min, GuessScore(guessWords[k], Score(guessWords[k], targets))))

\* What a call returns: a word, or the exception it throws.
Returned(wordIn) == [thrown |-> FALSE, word |-> wordIn]

Thrown(message) == [thrown |-> TRUE, what |-> message]

NoMatchingWords == "No matching words found."

\* getNextGuess with the shortcut for one target only (size() < 2).
getNextGuess_OnlyOne(targets, guessWords) ==
    IF Len(targets) = 0 THEN Thrown(NoMatchingWords)
    ELSE IF Len(targets) < 2 THEN Returned(Head(targets))
    ELSE Returned(AccumulateBest(targets, guessWords, 1,
                                 GuessScore(nonWord, scoreMax)).word)

\* getNextGuess(targets, guessWords)
getNextGuess(targets, guessWords) ==
    IF Len(targets) = 0 THEN Thrown(NoMatchingWords)
    ELSE IF Len(targets) <= 2 THEN Returned(Head(targets))
    ELSE Returned(AccumulateBest(targets, guessWords, 1,
                                 GuessScore(nonWord, scoreMax)).word)

----------------------------------------------------------------------------
(* The program's state *)

VARIABLES
    allTargets,   \* the list of all possible answer words
    allGuesses,   \* the list of all permitted guess words
    optInit,      \* CommandLine::GetInit(): a word, or <<>> for the empty string
    optHardMode,  \* CommandLine::GetHardMode()
    args,         \* doNextGuess: the hints made from the command line arguments
    target,       \* the target word (solveWord, test3)
    targets,      \* the currently plausible target words
    guesses,      \* the currently permitted guess words
    i,            \* solveWord: the loop counter
    guess,        \* the guess word
    hint,         \* the Hint made from target and guess
    word,         \* test1: the word matched against hint
    accepted,     \* test1: what hint.match(word) returned
    pc,           \* where the running function stands
    outcome,      \* "Searching", or how solveWord / getNextGuess ended
    solution,     \* solveWord: the solution_t returned, <<>> before
    tried,        \* solveWord: the guesses made so far, in order
    command,      \* main: the function the command line asks for
    argc,         \* doSolve: the number of words given on the command line
    arg,          \* doSolve, doSolveAll: how many targets the loop has taken
    reports,      \* doSolve, doSolveAll: the solutions printed so far
    exitCode,     \* main: the value returned, NotExited before
    index         \* getRandomTarget: the number drawn, NoIndex before

vars == <<allTargets, allGuesses, optInit, optHardMode, args, target, targets,
          guesses, i, guess, hint, word, accepted, pc, outcome, solution, tried,
          command, argc, arg, reports, exitCode, index>>

\* The command line options and the word lists: no function assigns them.
config == <<allTargets, allGuesses, optInit, optHardMode, args>>

\* main has not returned.
NotExited == 0 - 1

\* getRandomTarget has not been called.
NoIndex == 0 - 1

\* What main and its commands keep for themselves.
driver == <<command, argc, arg, reports, exitCode, index>>

\* A function called on its own, as the tests call it: main does nothing.
NoDriver ==
    /\ command = "none"
    /\ argc = 0
    /\ arg = 0
    /\ reports = <<>>
    /\ exitCode = NotExited
    /\ index = NoIndex

Range(seq) == {seq[k] : k \in 1..Len(seq)}

\* hasFirstGuess()
hasFirstGuess == optInit # <<>>

\* getFirstGuess()
getFirstGuess == optInit

\* maxGuessesT without the normal budget: 99 tries in every mode.
maxGuessesT_AlwaysHard == maxGuessesHard

\* unsigned maxGuessesT = CommandLine::GetHardMode() ? 99 : maxGuesses;
maxGuessesT == IF optHardMode THEN maxGuessesHard ELSE maxGuesses

----------------------------------------------------------------------------
(* The inputs of the model *)

\* A word of the model's word lists: all its letters but at most MaxOdd are
\* the same letter.
MaxOdd == 1

Vocabulary ==
    {w \in AllWords :
        \E x \in Letters : Cardinality({p \in Pos : w[p] # x}) <= MaxOdd}

\* The word lists of the model have at most MaxTargets answer words.
MaxTargets == 4

\* The place of a word in the alphabetical order.
RECURSIVE WordKey(_, _)
WordKey(w, p) ==
    IF p > wordLen THEN 0
    ELSE w[p] * (NumLetters + 1) ^ (wordLen - p) + WordKey(w, p + 1)

\* The alphabetical lists of n words of Vocabulary, without repeats.
RECURSIVE ListsOfLen(_)
ListsOfLen(n) ==
    IF n = 0 THEN {<<>>}
    ELSE {Append(l, w) : <<l, w>> \in
             {<<l, w>> \in ListsOfLen(n - 1) \X Vocabulary :
                 l = <<>> \/ WordKey(l[Len(l)], 1) < WordKey(w, 1)}}

\* The lists of answer words: not empty, alphabetical, without repeats, of n
\* words at most.
WordLists(n) == UNION {ListsOfLen(k) : k \in 1..n}

\* Values of the variables a function does not use.
NoHint == MkHint(nonWord, nonWord)

----------------------------------------------------------------------------
(* test3 and test1: Hint::fromGuess of two words, Hint::match of a word *)

InitTest(sameWord) ==
    /\ allTargets = <<>>
    /\ allGuesses = <<>>
    /\ optInit = <<>>
    /\ optHardMode = FALSE
    /\ args = <<>>
    /\ target \in AllWords
    /\ guess \in AllWords
    /\ word \in IF sameWord THEN {target} ELSE AllWords
    /\ targets = <<>>
    /\ guesses = <<>>
    /\ i = 0
    /\ hint = NoHint
    /\ accepted = FALSE
    /\ pc = "test3"
    /\ outcome = "Searching"
    /\ solution = <<>>
    /\ tried = <<>>
    /\ NoDriver

\* test3: Hint hint = Hint::fromGuess(target, guess);
Test3 ==
    /\ pc = "test3"
    /\ hint' = fromGuess(target, guess)
    /\ pc' = "test1"
    /\ UNCHANGED <<config, driver, target, targets, guesses, i, guess, word, accepted,
                   outcome, solution, tried>>

\* test1: hint.match(word)
Test1 ==
    /\ pc = "test1"
    /\ accepted' = match(hint, word)
    /\ pc' = "done"
    /\ UNCHANGED <<config, driver, target, targets, guesses, i, guess, hint, word,
                   outcome, solution, tried>>

NextTest == Test3 \/ Test1

\* The hint of a guess, matched against the target it was made from.
InitHint == InitTest(TRUE)

SpecHint == InitHint /\ [][NextTest]_vars

\* The hint of a guess, matched against any word.
InitMatch == InitTest(FALSE)

SpecMatch == InitMatch /\ [][NextTest]_vars

----------------------------------------------------------------------------
(* doNextGuess(args) *)

\* The command line gives at most MaxHints guess-hint pairs.
MaxHints == 2

\* The sequences of at most n words of the list.
RECURSIVE GuessSeqs(_, _)
GuessSeqs(list, n) ==
    IF n = 0 THEN {<<>>}
    ELSE GuessSeqs(list, n - 1)
             \cup {Append(gs, w) : <<gs, w>> \in
                      {gw \in GuessSeqs(list, n - 1) \X Range(list) :
                          Len(gw[1]) = n - 1}}

\* makeHints(args) for a user who made the guesses gs in a game whose answer
\* is the word answer, and typed the hints of that game.
makeHints(answer, gs) == [j \in 1..Len(gs) |-> fromGuess(answer, gs[j])]

InitNextGuess ==
    /\ allTargets \in WordLists(MaxTargets)
    /\ allGuesses = allTargets
    /\ optHardMode \in BOOLEAN
    /\ target \in Vocabulary
    /\ args \in {makeHints(target, gs) : gs \in GuessSeqs(allGuesses, MaxHints)}
    /\ optInit \in IF args = <<>> THEN {<<>>} \cup Vocabulary ELSE {<<>>}
    /\ targets = <<>>
    /\ guesses = <<>>
    /\ i = 0
    /\ guess = nonWord
    /\ hint = NoHint
    /\ word = nonWord
    /\ accepted = FALSE
    /\ pc = "start"
    /\ outcome = "Searching"
    /\ solution = <<>>
    /\ tried = <<>>
    /\ NoDriver

\* if (args.empty() && hasFirstGuess()): show the default first guess.
ShowFirstGuess ==
    /\ pc = "start"
    /\ args = <<>> /\ hasFirstGuess
    /\ guess' = getFirstGuess
    /\ pc' = "shown"
    /\ UNCHANGED <<config, driver, target, targets, guesses, i, hint, word, accepted,
                   outcome, solution, tried>>

\* else: filter the word lists by the hints given so far.
FilterByArgs ==
    /\ pc = "start"
    /\ ~(args = <<>> /\ hasFirstGuess)
    /\ targets' = filterTargets(args, allTargets)
    /\ guesses' = IF optHardMode THEN filterTargets(args, allGuesses)
                                 ELSE allGuesses
    /\ pc' = "next"
    /\ UNCHANGED <<config, driver, target, i, guess, hint, word, accepted, outcome,
                   solution, tried>>

\* guess = getNextGuess(targets, guessList); main catches what it throws.
BestGuess ==
    /\ pc = "next"
    /\ LET g == getNextGuess(targets, guesses)
       IN  IF g.thrown
           THEN outcome' = "Failed" /\ UNCHANGED guess
           ELSE guess' = g.word /\ UNCHANGED outcome
    /\ pc' = "done"
    /\ UNCHANGED <<config, driver, target, targets, guesses, i, hint, word, accepted,
                   solution, tried>>

NextNextGuess == ShowFirstGuess \/ FilterByArgs \/ BestGuess

SpecNextGuess == InitNextGuess /\ [][NextNextGuess]_vars

----------------------------------------------------------------------------
(* solveWord(target, allTargets, allGuesses, fPrintGuesses) *)

InitSolve ==
    /\ allTargets \in WordLists(MaxTargets)
    /\ allGuesses = allTargets
    /\ optInit \in {<<>>} \cup Vocabulary
    /\ optHardMode \in BOOLEAN
    /\ args = <<>>
    /\ target \in Vocabulary
    /\ targets = allTargets
    /\ guesses = allGuesses
    /\ i = 0
    /\ guess = nonWord
    /\ hint = NoHint
    /\ word = nonWord
    /\ accepted = FALSE
    /\ pc = "loop"
    /\ outcome = "Searching"
    /\ solution = <<>>
    /\ tried = <<>>
    /\ NoDriver

\* ChooseGuess with the opening guess tested before the number of targets.
ChooseGuess_OpenerFirst ==
    IF i = 0 /\ hasFirstGuess THEN Returned(getFirstGuess)
    ELSE IF Len(targets) = 1 THEN Returned(Head(targets))
    ELSE getNextGuess(targets, guesses)

\* The guess of iteration i (the if / else if / else of the loop body).
ChooseGuess ==
    IF Len(targets) = 1 THEN Returned(Head(targets))
    ELSE IF i = 0 /\ hasFirstGuess THEN Returned(getFirstGuess)
    ELSE getNextGuess(targets, guesses)

\* A guess as tried records it: the word, and whether it was one of the
\* plausible targets when it was made.
Try(wordIn) == [word |-> wordIn, candidate |-> wordIn \in Range(targets)]

\* The head of the loop body: choose the guess and print it.
MakeGuess ==
    /\ pc = "loop"
    /\ i < maxGuessesT
    /\ LET g == ChooseGuess
       IN  IF g.thrown
           THEN /\ outcome' = "Failed"
                /\ pc' = "done"
                /\ UNCHANGED <<guess, tried>>
           ELSE /\ guess' = g.word
                /\ tried' = Append(tried, Try(g.word))
                /\ pc' = "compare"
                /\ UNCHANGED outcome
    /\ UNCHANGED <<config, driver, target, targets, guesses, i, hint, word, accepted,
                   solution>>

\* ReturnSolution with the loop counter for the number of guesses.
ReturnSolution_CountFromZero ==
    /\ pc = "compare"
    /\ guess = target
    /\ solution' = <<guess, i>>
    /\ outcome' = "Solved"
    /\ pc' = "done"
    /\ UNCHANGED <<config, driver, target, targets, guesses, i, guess, hint, word,
                   accepted, tried>>

\* return { guess, i + 1 };
ReturnSolution ==
    /\ pc = "compare"
    /\ guess = target
    /\ solution' = <<guess, i + 1>>
    /\ outcome' = "Solved"
    /\ pc' = "done"
    /\ UNCHANGED <<config, driver, target, targets, guesses, i, guess, hint, word,
                   accepted, tried>>

\* FilterByHint that filters the targets only, in hard mode too.
FilterByHint_KeepGuesses ==
    /\ pc = "compare"
    /\ guess # target
    /\ LET h == fromGuess(target, guess)
           newTargets == filterTargets1(h, targets)
       IN  /\ hint' = h
           /\ targets' = newTargets
           /\ guesses' = guesses
           /\ IF Len(newTargets) = 0
              THEN /\ outcome' = "Failed"
                   /\ pc' = "done"
                   /\ UNCHANGED i
              ELSE /\ i' = i + 1
                   /\ pc' = "loop"
                   /\ UNCHANGED outcome
    /\ UNCHANGED <<config, driver, target, guess, word, accepted, solution,
                   tried>>

\* The rest of the loop body: filter the lists by the hint of the guess.
FilterByHint ==
    /\ pc = "compare"
    /\ guess # target
    /\ LET h == fromGuess(target, guess)
           newTargets == filterTargets1(h, targets)
       IN  /\ hint' = h
           /\ targets' = newTargets
           /\ guesses' = IF optHardMode THEN filterTargets1(h, guesses) ELSE guesses
           /\ IF Len(newTargets) = 0
              THEN /\ outcome' = "Failed"
                   /\ pc' = "done"
                   /\ UNCHANGED i
              ELSE /\ i' = i + 1
                   /\ pc' = "loop"
                   /\ UNCHANGED outcome
    /\ UNCHANGED <<config, driver, target, guess, word, accepted, solution, tried>>

\* The throwError after the loop: the answer was not found in maxGuessesT tries.
GiveUp ==
    /\ pc = "loop"
    /\ i >= maxGuessesT
    /\ outcome' = "Exhausted"
    /\ pc' = "done"
    /\ UNCHANGED <<config, driver, target, targets, guesses, i, guess, hint, word,
                   accepted, solution, tried>>

NextSolve == MakeGuess \/ ReturnSolution \/ FilterByHint \/ GiveUp

SpecSolve == InitSolve /\ [][NextSolve]_vars

----------------------------------------------------------------------------
(* solveWord with guess words that are not answer words *)

\* allGuesses has at most MaxExtra words after the answer words.
MaxExtra == 1

\* The first n words of Vocabulary, in alphabetical order, that are not in
\* list.
RECURSIVE FirstOutside(_, _)
FirstOutside(list, n) ==
    IF n = 0 THEN <<>>
    ELSE LET before == FirstOutside(list, n - 1)
             rest == Vocabulary \ (Range(list) \cup Range(before))
         IN  Append(before,
                    CHOOSE w \in rest :
                        \A v \in rest : WordKey(w, 1) <= WordKey(v, 1))

\* words-guess.h for the answer words of list: 1 to n words that are not
\* answer words.
ExtraGuesses(list, n) == {FirstOutside(list, k) : k \in 1..n}

\* solveWord as InitSolve starts it, without an opening guess and with some
\* words to guess that are not answers.
InitHard ==
    /\ allTargets \in WordLists(MaxTargets)
    /\ allGuesses \in {allTargets \o l : l \in ExtraGuesses(allTargets, MaxExtra)}
    /\ optInit = <<>>
    /\ optHardMode \in BOOLEAN
    /\ args = <<>>
    /\ target \in Vocabulary
    /\ targets = allTargets
    /\ guesses = allGuesses
    /\ i = 0
    /\ guess = nonWord
    /\ hint = NoHint
    /\ word = nonWord
    /\ accepted = FALSE
    /\ pc = "loop"
    /\ outcome = "Searching"
    /\ solution = <<>>
    /\ tried = <<>>
    /\ NoDriver

SpecHard == InitHard /\ [][NextSolve]_vars

----------------------------------------------------------------------------
(* main, doSolve(args) and doSolveAll(args) *)

\* The command line of doSolve gives several target words: two at least,
\* MaxArgs at most.
MaxArgs == 2

\* The number of words the loop of the command goes through: for (auto&& arg :
\* args) in doSolve, for (auto&& target : allTargets) in doSolveAll.
BatchSize == IF command = "solveAll" THEN Len(allTargets) ELSE argc

\* The words the next one of the loop can be: doSolve takes any word the
\* command line gives, doSolveAll the next word of allTargets.
BatchTargets ==
    IF command = "solveAll" THEN {allTargets[arg + 1]} ELSE Vocabulary

\* The variables of solveWord and of the loop body when none is running.
NoSolve ==
    /\ target = nonWord
    /\ targets = <<>>
    /\ guesses = <<>>
    /\ i = 0
    /\ guess = nonWord
    /\ hint = NoHint
    /\ outcome = "Searching"
    /\ solution = <<>>
    /\ tried = <<>>

\* The batches of the model run in normal mode and without an opening guess.
InitBatch ==
    /\ allTargets \in WordLists(MaxTargets)
    /\ allGuesses = allTargets
    /\ optInit = <<>>
    /\ optHardMode = FALSE
    /\ command \in {"solve", "solveAll"}
    /\ args = <<>>
    /\ argc \in IF command = "solve" THEN 2..MaxArgs ELSE {0}
    /\ NoSolve
    /\ word = nonWord
    /\ accepted = FALSE
    /\ pc = "batch"
    /\ arg = 0
    /\ reports = <<>>
    /\ exitCode = NotExited
    /\ index = NoIndex

\* The head of the loop body: the next word is the target, and solveWord
\* begins with copies of the two word lists.
TakeTarget ==
    /\ pc = "batch"
    /\ arg < BatchSize
    /\ arg' = arg + 1
    /\ target' \in BatchTargets
    /\ targets' = allTargets
    /\ guesses' = allGuesses
    /\ pc' = "loop"
    /\ UNCHANGED <<config, i, guess, hint, word, accepted, outcome, solution,
                   tried, command, argc, reports, exitCode, index>>

\* solveWord returned: the solution is printed, the variables of the loop body
\* end with it and the loop goes on.
PrintSolution ==
    /\ pc = "done"
    /\ command \in {"solve", "solveAll"}
    /\ outcome = "Solved"
    /\ reports' = Append(reports, solution)
    /\ target' = nonWord
    /\ targets' = <<>>
    /\ guesses' = <<>>
    /\ i' = 0
    /\ guess' = nonWord
    /\ hint' = NoHint
    /\ outcome' = "Searching"
    /\ solution' = <<>>
    /\ tried' = <<>>
    /\ pc' = "batch"
    /\ UNCHANGED <<config, word, accepted, command, argc, arg, exitCode, index>>

\* solveWord threw: neither doSolve nor doSolveAll catches, the catch of main
\* prints the error and returns 1.
CatchError ==
    /\ pc = "done"
    /\ command \in {"solve", "solveAll"}
    /\ outcome \in {"Exhausted", "Failed"}
    /\ exitCode' = 1
    /\ pc' = "exit"
    /\ UNCHANGED <<config, target, targets, guesses, i, guess, hint, word,
                   accepted, outcome, solution, tried, command, argc, arg,
                   reports, index>>

\* The loop is over: the command returns and main returns 0.
ReturnZero ==
    /\ pc = "batch"
    /\ arg >= BatchSize
    /\ exitCode' = 0
    /\ pc' = "exit"
    /\ UNCHANGED <<config, target, targets, guesses, i, guess, hint, word,
                   accepted, outcome, solution, tried, command, argc, arg,
                   reports, index>>

NextBatch ==
    \/ TakeTarget
    \/ MakeGuess
    \/ ReturnSolution
    \/ FilterByHint
    \/ GiveUp
    \/ PrintSolution
    \/ CatchError
    \/ ReturnZero

SpecBatch == InitBatch /\ [][NextBatch]_vars

----------------------------------------------------------------------------
(* doPlayGame(args) and getRandomTarget() *)

\* The games of the model have at most MaxPlayTargets answer words.
MaxPlayTargets == 3

\* What allTargets[n] reads, n counted from 0 as the code counts: the word at
\* that place of the array, and past its end whatever is in memory there, any
\* five letters or none.
ReadTarget(n) ==
    IF n < Len(allTargets) THEN {allTargets[n + 1]}
    ELSE AllWords \cup {nonWord}

\* The words getInputGuess accepts: those whose all-green hint leaves exactly
\* that word of guessWords.
ValidGuesses(guessWords) ==
    {w \in AllWords :
        LET matches == filterTargets1(fromGuess(w, w), guessWords)
        IN  Len(matches) = 1 /\ matches[1] = w}

InitPlay ==
    /\ allTargets \in WordLists(MaxPlayTargets)
    /\ allGuesses = allTargets
    /\ optInit = <<>>
    /\ optHardMode \in BOOLEAN
    /\ args = <<>>
    /\ command = "play"
    /\ argc = 0
    /\ NoSolve
    /\ word = nonWord
    /\ accepted = FALSE
    /\ pc = "play"
    /\ arg = 0
    /\ reports = <<>>
    /\ exitCode = NotExited
    /\ index = NoIndex

\* word_t answer = getRandomTarget(): randDist draws a number from 1 to
\* std::size(allTargets), both included, and allTargets[number] is the answer.
\* Then the game begins with a copy of allGuesses.
GetRandomTarget ==
    /\ pc = "play"
    /\ \E n \in 1..Len(allTargets) :
           /\ index' = n
           /\ target' \in ReadTarget(n)
    /\ guesses' = allGuesses
    /\ i' = 1
    /\ pc' = "input"
    /\ UNCHANGED <<config, targets, guess, hint, word, accepted, outcome,
                   solution, tried, command, argc, arg, reports, exitCode>>

\* getInputGuess returns the answer: the game is won and main returns 0.
GuessCorrect ==
    /\ pc = "input"
    /\ i <= maxGuesses
    /\ target \in ValidGuesses(guesses)
    /\ guess' = target
    /\ exitCode' = 0
    /\ pc' = "exit"
    /\ UNCHANGED <<config, target, targets, guesses, i, hint, word, accepted,
                   outcome, solution, tried, command, argc, arg, reports, index>>

\* getInputGuess returns another word: its hint is printed, and in hard mode
\* guesses is filtered by it.
GuessWrong ==
    /\ pc = "input"
    /\ i <= maxGuesses
    /\ \E w \in ValidGuesses(guesses) \ {target} :
           LET h == fromGuess(target, w)
           IN  /\ guess' = w
               /\ hint' = h
               /\ guesses' = IF optHardMode THEN filterTargets1(h, guesses)
                                            ELSE guesses
    /\ i' = i + 1
    /\ UNCHANGED <<config, target, targets, word, accepted, pc, outcome,
                   solution, tried, command, argc, arg, reports, exitCode, index>>

\* getInputGuess returns std::nullopt (end of input or an input error):
\* doPlayGame returns and main returns 0.
EndOfInput ==
    /\ pc = "input"
    /\ i <= maxGuesses
    /\ exitCode' = 0
    /\ pc' = "exit"
    /\ UNCHANGED <<config, target, targets, guesses, i, guess, hint, word,
                   accepted, outcome, solution, tried, command, argc, arg,
                   reports, index>>

\* All the tries are used: "Answer ... was not found in 6 tries." is printed,
\* doPlayGame returns and main returns 0.
OutOfTries ==
    /\ pc = "input"
    /\ i > maxGuesses
    /\ exitCode' = 0
    /\ pc' = "exit"
    /\ UNCHANGED <<config, target, targets, guesses, i, guess, hint, word,
                   accepted, outcome, solution, tried, command, argc, arg,
                   reports, index>>

NextPlay ==
    \/ GetRandomTarget
    \/ GuessCorrect
    \/ GuessWrong
    \/ EndOfInput
    \/ OutOfTries

SpecPlay == InitPlay /\ [][NextPlay]_vars

----------------------------------------------------------------------------
(* Claims about Hint::fromGuess and Hint::match *)

\* The number of positions of w that hold the letter x.
CountOf(w, x) == Cardinality({p \in Pos : w[p] = x})

Min(a, b) == IF a < b THEN a ELSE b

\* The guess has a repeated letter that is yellow at one place and grey at
\* another.
YellowAndGrey ==
    \E p, q \in Pos :
        /\ guess[p] = guess[q]
        /\ hint.hint[p] = "y"
        /\ hint.hint[q] = "."

\* C1: the hint made from a target and a guess accepts that target:
\* fromGuess(target, guess).match(target) is true.
C1_SelfConsistent ==
    (pc = "done" /\ word = target) => accepted

C1_Witness ==
    /\ pc = "done"
    /\ word = target
    /\ accepted
    /\ YellowAndGrey

\* C2: the hint made from a target and a guess accepts a word exactly when the
\* guess gets the same hint pattern against that word.
C2_MatchExact ==
    pc = "done" => (accepted <=> fromGuess(word, guess).hint = hint.hint)

\* C6: fromGuess marks min(#x in guess, #x in target) of the x of the guess
\* green or yellow, for every letter x; a position is green exactly when guess
\* and target agree there; and of the x of the guess that are not green, the
\* yellow ones are the leftmost.
C6_DuplicateLetters ==
    pc # "test3" =>
        /\ \A x \in Letters :
               Cardinality({p \in Pos : guess[p] = x /\ hint.hint[p] \in {"g", "y"}})
                   = Min(CountOf(guess, x), CountOf(target, x))
        /\ \A p \in Pos : hint.hint[p] = "g" <=> guess[p] = target[p]
        /\ \A p, q \in Pos :
               (/\ p < q
                /\ guess[p] = guess[q]
                /\ hint.hint[p] # "g"
                /\ hint.hint[q] = "y") => hint.hint[p] = "y"

C6_Witness ==
    /\ pc # "test3"
    /\ YellowAndGrey
    /\ \E p \in Pos : hint.hint[p] = "g"

----------------------------------------------------------------------------
(* Claims about getNextGuess and filterTargets *)

\* The number of words of the pool that get the same hint pattern from the
\* guess g as the k-th word: the size of the k-th word's class.
ClassSize(g, pool, k) ==
    Cardinality({j \in 1..Len(pool) :
                    fromGuess(pool[j], g).hint = fromGuess(pool[k], g).hint})

\* The sum of the squared sizes of the classes: each word of pool[k..] adds
\* the size of its class.
RECURSIVE SumSquares(_, _, _)
SumSquares(g, pool, k) ==
    IF k > Len(pool) THEN 0
    ELSE ClassSize(g, pool, k) + SumSquares(g, pool, k + 1)

\* C3: the score getNextGuess computes for a guess is the sum of the squared
\* sizes of the classes of targets that get the same hint pattern from it.
C3_ScoreIsSumOfSquares ==
    (pc \in {"next", "done"} /\ Len(targets) >= 3) =>
        \A k \in 1..Len(guesses) :
            Score(guesses[k], targets) = SumSquares(guesses[k], targets, 1)

\* C4: with 3 or more targets getNextGuess returns the guess word of the
\* lowest score, and of several with the lowest score the first in the list.
C4_FirstLowestScore ==
    (pc = "done" /\ Len(targets) >= 3) =>
        \E k \in 1..Len(guesses) :
            /\ guess = guesses[k]
            /\ \A j \in 1..Len(guesses) :
                   Score(guesses[j], targets) >= Score(guesses[k], targets)
            /\ \A j \in 1..(k - 1) :
                   Score(guesses[j], targets) > Score(guesses[k], targets)

\* Three or more targets, and the guess returned shares its score with a later
\* word of a guess list that has more words than there are targets.
C4_Witness ==
    /\ pc = "done"
    /\ Len(targets) >= 3
    /\ Len(guesses) > Len(targets)
    /\ \E j, k \in 1..Len(guesses) :
           /\ guess = guesses[k]
           /\ k < j
           /\ Score(guesses[j], targets) = Score(guess, targets)

\* C5: with 1 or 2 targets getNextGuess returns the first of them, and with
\* none it throws "No matching words found."
C5_SmallPool ==
    pc = "done" =>
        /\ Len(targets) \in {1, 2} => (guess = targets[1] /\ outcome # "Failed")
        /\ Len(targets) = 0 => (outcome = "Failed" /\ guess = nonWord)

\* Two targets, the first of them returned, from a guess list that begins with
\* another word.
C5_Witness ==
    /\ pc = "done"
    /\ Len(targets) = 2
    /\ guess = targets[1]
    /\ guesses[1] # targets[1]

\* The positions of the pool whose word every hint accepts.
Kept(hints, pool) ==
    {k \in 1..Len(pool) : \A h \in Range(hints) : match(h, pool[k])}

\* out is the words of the pool at the positions Kept, in the pool's order.
IsStableFilter(out, hints, pool) ==
    /\ Len(out) = Cardinality(Kept(hints, pool))
    /\ Len(out) <= Len(pool)
    /\ \A j \in 1..Len(out) :
           \E k \in Kept(hints, pool) :
               /\ Cardinality({m \in Kept(hints, pool) : m <= k}) = j
               /\ out[j] = pool[k]

\* C7: filterTargets returns the words of the pool that every hint accepts, in
\* the pool's order, and leaves the pool as it was.
C7_StableFilter ==
    [][(pc = "start" /\ pc' = "next") =>
           /\ IsStableFilter(targets', args, allTargets)
           /\ allTargets' = allTargets]_vars

\* Two hints that keep some of the answer words but not the first.
C7_Witness ==
    /\ pc = "next"
    /\ Len(args) = 2
    /\ Len(targets) \in 1..(Len(allTargets) - 1)
    /\ targets[1] # allTargets[1]

----------------------------------------------------------------------------
(* Claims about solveWord *)

\* The words solveWord was given: allGuesses repeats allTargets.
InVocabulary(w) == w \in Range(allTargets) \cup Range(allGuesses)

\* C8: a target that is in the list of answer words stays in targets through
\* every filtering, and solveWord does not fail with "No matching words found".
C8_TargetStays ==
    target \in Range(allTargets) =>
        (target \in Range(targets) /\ outcome # "Failed")

C8_Witness ==
    /\ target \in Range(allTargets)
    /\ pc = "loop"
    /\ i >= 2
    /\ Len(targets) < Len(allTargets)

\* C9: after an iteration with a wrong guess, the guessed word is not among
\* the targets of the next iteration, and a word that was a plausible target
\* when it was guessed is not guessed a second time.
C9_ForwardProgress ==
    /\ (pc = "loop" /\ i > 0) => guess \notin Range(targets)
    /\ \A j, k \in 1..Len(tried) :
           (j < k /\ tried[j].candidate) => tried[k].word # tried[j].word

\* C10 as claimed: in normal mode, solveWord for a target that is not in its
\* word lists makes at most maxGuesses guesses and ends Exhausted or Failed,
\* never Solved.
C10_NeverSolved ==
    (~optHardMode /\ ~InVocabulary(target)) =>
        /\ outcome # "Solved"
        /\ Len(tried) <= maxGuesses
        /\ pc = "done" => outcome \in {"Exhausted", "Failed"}

\* C10 as amended: the same, when the opening guess is not the target itself.
C10_NeverSolvedUnlessOpened ==
    (~optHardMode /\ ~InVocabulary(target) /\ optInit # target) =>
        /\ outcome # "Solved"
        /\ Len(tried) <= maxGuesses
        /\ pc = "done" => outcome \in {"Exhausted", "Failed"}

C10_Witness ==
    /\ ~optHardMode
    /\ ~InVocabulary(target)
    /\ hasFirstGuess
    /\ optInit # target
    /\ pc = "done"
    /\ outcome = "Exhausted"

\* How solveWord can end.
Terminal == {"Solved", "Exhausted", "Failed"}

\* What is left of the run at most: two steps for each iteration to come and
\* the step that ends the run.
StepsLeft ==
    IF pc = "done" THEN 0
    ELSE 2 * (maxGuessesT - i) + (IF pc = "loop" THEN 2 ELSE 1)

\* C12: solveWord makes at most maxGuessesT guesses (6, or 99 in hard mode)
\* and ends in exactly one of Solved, Exhausted and Failed: until it has ended
\* it is Searching, every step it takes brings the end nearer, and it ends
\* with one of the three. When it ends Solved, the word returned is the target
\* and the count returned is the number of guesses made, between 1 and
\* maxGuessesT.
C12_OneTerminalState ==
    /\ [](/\ Len(tried) <= maxGuessesT
          /\ i <= maxGuessesT
          /\ pc \in {"loop", "compare", "done"}
          /\ pc # "done" => outcome = "Searching"
          /\ pc = "done" => outcome \in Terminal
          /\ outcome = "Solved" =>
                 /\ solution = <<target, Len(tried)>>
                 /\ tried[Len(tried)].word = target
                 /\ Len(tried) \in 1..maxGuessesT)
    /\ [][/\ StepsLeft' < StepsLeft
          /\ outcome \in Terminal => outcome' = outcome]_vars

\* Solved in hard mode by the third guess or a later one.
C12_Witness ==
    /\ pc = "done"
    /\ outcome = "Solved"
    /\ optHardMode
    /\ solution[2] >= 3

\* C13: the guess of an iteration is the only target when there is exactly
\* one, also in iteration 0 with an opening guess; otherwise the opening guess
\* in iteration 0 when one was given; otherwise what getNextGuess returns for
\* the current targets and guesses. In an iteration after the first the
\* opening guess plays no part.
C13_GuessOrder ==
    [][(pc = "loop" /\ pc' = "compare") =>
           /\ Len(targets) = 1 => guess' = targets[1]
           /\ (Len(targets) # 1 /\ i = 0 /\ optInit # <<>>) => guess' = optInit
           /\ (Len(targets) # 1 /\ ~(i = 0 /\ optInit # <<>>)) =>
                  guess' = getNextGuess(targets, guesses).word
           /\ i > 0 =>
                  guess' = IF Len(targets) = 1 THEN targets[1]
                           ELSE getNextGuess(targets, guesses).word]_vars

\* Iteration 0 with an opening guess and one target, which is another word.
C13_Witness ==
    /\ pc = "compare"
    /\ i = 0
    /\ optInit # <<>>
    /\ Len(targets) = 1
    /\ guess = targets[1]
    /\ guess # optInit

\* The hints solveWord has derived: one for each guess made, the guess under
\* comparison left out.
DerivedHints ==
    [j \in 1..(IF pc = "compare" THEN Len(tried) - 1 ELSE Len(tried)) |->
        fromGuess(target, tried[j].word)]

\* C14: in hard mode guesses is allGuesses filtered by every hint derived so
\* far, and every guess after the first is accepted by match of the hint of
\* every earlier guess of the run; with hard mode off guesses is allGuesses in
\* every iteration.
C14_HardMode ==
    /\ (optHardMode /\ outcome \in {"Searching", "Exhausted"}) =>
           guesses = filterTargets(DerivedHints, allGuesses)
    /\ optHardMode =>
           \A j, k \in 1..Len(tried) :
               j < k => match(fromGuess(target, tried[j].word), tried[k].word)
    /\ ~optHardMode => guesses = allGuesses

\* Hard mode: the guess word that is not an answer word was filtered out of
\* guesses, and the second guess was chosen by score for three targets or
\* more.
C14_Witness ==
    /\ optHardMode
    /\ Len(tried) >= 2
    /\ allGuesses[Len(allGuesses)] \notin Range(guesses)
    /\ Len(targets) >= 3

----------------------------------------------------------------------------
(* Claims about doSolve and doSolveAll *)

\* The command has ended after a solveWord that used up its tries.
EndedExhausted == pc = "exit" /\ outcome = "Exhausted"

\* C11: a solve that exhausts its guess budget does not stop the batch: when
\* the command has ended, the loop has taken every target of the batch, those
\* after the target that was not found included.
C11_BatchContinues ==
    EndedExhausted => arg = BatchSize

----------------------------------------------------------------------------
(* Claims about doPlayGame *)

\* C15: the number getRandomTarget draws is an index of allTargets, 0 to N - 1
\* for N answer words, and the hidden answer of the game is an answer word.
C15_AnswerInList ==
    pc # "play" =>
        /\ index \in 0..(Len(allTargets) - 1)
        /\ target \in Range(allTargets)

====
